---- MODULE Spec2Model ----
(***************************************************************************)
(* A model of radiation_monitor.py: the phrase-matching relevance filter,  *)
(* classifier and scorer (pure functions of title, summary and source      *)
(* label), and the run orchestrator main() with its deduplication ledger   *)
(* and its twice-daily summary gate.                                       *)
(*                                                                         *)
(* Text is a sequence of Unicode code points, so that lower(), strip(),    *)
(* startswith(), `in` (substring) and concatenation are modelled by what   *)
(* they do.  The comment after a sequence gives the text it spells.        *)
(* Time is counted in whole hours since an epoch that starts a day at      *)
(* 00:00 Asia/Riyadh (a zone without daylight saving).                     *)
(***************************************************************************)
EXTENDS Integers, Sequences, FiniteSets

(***************************************************************************)
(* Text primitives (Python str operations used by the source).             *)
(***************************************************************************)

\* A code point lies in one of the <<first, last>> ranges of R.
InRanges(c, R) == \E r \in R : r[1] <= c /\ c <= r[2]

\* ---- str.lower(): the simple and full lower-case mappings of the Unicode
\* data of the interpreter (Unicode 14.0), and the Final_Sigma rule.

\* Lower-case mappings of U+0041..U+005A: <<first, last, step, offset>>.
LowerRuns1 ==
    { <<65,90,1,32>> }

\* Lower-case mappings of U+00C0..U+024E: <<first, last, step, offset>>.
LowerRuns2 ==
    { <<192,214,1,32>>, <<216,222,1,32>>, <<256,302,2,1>>, <<306,310,2,1>>, <<313,327,2,1>>,
      <<330,374,2,1>>, <<376,376,1,-121>>, <<377,381,2,1>>, <<385,385,1,210>>, <<386,388,2,1>>,
      <<390,390,1,206>>, <<391,391,1,1>>, <<393,394,1,205>>, <<395,395,1,1>>, <<398,398,1,79>>,
      <<399,399,1,202>>, <<400,400,1,203>>, <<401,401,1,1>>, <<403,403,1,205>>, <<404,404,1,207>>,
      <<406,406,1,211>>, <<407,407,1,209>>, <<408,408,1,1>>, <<412,412,1,211>>, <<413,413,1,213>>,
      <<415,415,1,214>>, <<416,420,2,1>>, <<422,422,1,218>>, <<423,423,1,1>>, <<425,425,1,218>>,
      <<428,428,1,1>>, <<430,430,1,218>>, <<431,431,1,1>>, <<433,434,1,217>>, <<435,437,2,1>>,
      <<439,439,1,219>>, <<440,440,1,1>>, <<444,444,1,1>>, <<452,452,1,2>>, <<453,453,1,1>>,
      <<455,455,1,2>>, <<456,456,1,1>>, <<458,458,1,2>>, <<459,475,2,1>>, <<478,494,2,1>>,
      <<497,497,1,2>>, <<498,500,2,1>>, <<502,502,1,-97>>, <<503,503,1,-56>>, <<504,542,2,1>>,
      <<544,544,1,-130>>, <<546,562,2,1>>, <<570,570,1,10795>>, <<571,571,1,1>>, <<573,573,1,-163>>,
      <<574,574,1,10792>>, <<577,577,1,1>>, <<579,579,1,-195>>, <<580,580,1,69>>, <<581,581,1,71>>,
      <<582,590,2,1>> }

\* Lower-case mappings of U+0370..U+0556: <<first, last, step, offset>>.
LowerRuns3 ==
    { <<880,882,2,1>>, <<886,886,1,1>>, <<895,895,1,116>>, <<902,902,1,38>>, <<904,906,1,37>>,
      <<908,908,1,64>>, <<910,911,1,63>>, <<913,929,1,32>>, <<931,939,1,32>>, <<975,975,1,8>>,
      <<984,1006,2,1>>, <<1012,1012,1,-60>>, <<1015,1015,1,1>>, <<1017,1017,1,-7>>, <<1018,1018,1,1>>,
      <<1021,1023,1,-130>>, <<1024,1039,1,80>>, <<1040,1071,1,32>>, <<1120,1152,2,1>>, <<1162,1214,2,1>>,
      <<1216,1216,1,15>>, <<1217,1229,2,1>>, <<1232,1326,2,1>>, <<1329,1366,1,48>> }

\* Lower-case mappings of U+10A0..U+10CD: <<first, last, step, offset>>.
LowerRuns4 ==
    { <<4256,4293,1,7264>>, <<4295,4295,1,7264>>, <<4301,4301,1,7264>> }

\* Lower-case mappings of U+13A0..U+13F5: <<first, last, step, offset>>.
LowerRuns5 ==
    { <<5024,5103,1,38864>>, <<5104,5109,1,8>> }

\* Lower-case mappings of U+1C90..U+1CBF: <<first, last, step, offset>>.
LowerRuns6 ==
    { <<7312,7354,1,-3008>>, <<7357,7359,1,-3008>> }

\* Lower-case mappings of U+1E00..U+1FFC: <<first, last, step, offset>>.
LowerRuns7 ==
    { <<7680,7828,2,1>>, <<7838,7838,1,-7615>>, <<7840,7934,2,1>>, <<7944,7951,1,-8>>, <<7960,7965,1,-8>>,
      <<7976,7983,1,-8>>, <<7992,7999,1,-8>>, <<8008,8013,1,-8>>, <<8025,8031,2,-8>>, <<8040,8047,1,-8>>,
      <<8072,8079,1,-8>>, <<8088,8095,1,-8>>, <<8104,8111,1,-8>>, <<8120,8121,1,-8>>, <<8122,8123,1,-74>>,
      <<8124,8124,1,-9>>, <<8136,8139,1,-86>>, <<8140,8140,1,-9>>, <<8152,8153,1,-8>>, <<8154,8155,1,-100>>,
      <<8168,8169,1,-8>>, <<8170,8171,1,-112>>, <<8172,8172,1,-7>>, <<8184,8185,1,-128>>, <<8186,8187,1,-126>>,
      <<8188,8188,1,-9>> }

\* Lower-case mappings of U+2126..U+2183: <<first, last, step, offset>>.
LowerRuns8 ==
    { <<8486,8486,1,-7517>>, <<8490,8490,1,-8383>>, <<8491,8491,1,-8262>>, <<8498,8498,1,28>>, <<8544,8559,1,16>>,
      <<8579,8579,1,1>> }

\* Lower-case mappings of U+24B6..U+24CF: <<first, last, step, offset>>.
LowerRuns9 ==
    { <<9398,9423,1,26>> }

\* Lower-case mappings of U+2C00..U+2CF2: <<first, last, step, offset>>.
LowerRuns10 ==
    { <<11264,11311,1,48>>, <<11360,11360,1,1>>, <<11362,11362,1,-10743>>, <<11363,11363,1,-3814>>, <<11364,11364,1,-10727>>,
      <<11367,11371,2,1>>, <<11373,11373,1,-10780>>, <<11374,11374,1,-10749>>, <<11375,11375,1,-10783>>, <<11376,11376,1,-10782>>,
      <<11378,11378,1,1>>, <<11381,11381,1,1>>, <<11390,11391,1,-10815>>, <<11392,11490,2,1>>, <<11499,11501,2,1>>,
      <<11506,11506,1,1>> }

\* Lower-case mappings of U+A640..U+A69A: <<first, last, step, offset>>.
LowerRuns11 ==
    { <<42560,42604,2,1>>, <<42624,42650,2,1>> }

\* Lower-case mappings of U+A722..U+A7F5: <<first, last, step, offset>>.
LowerRuns12 ==
    { <<42786,42798,2,1>>, <<42802,42862,2,1>>, <<42873,42875,2,1>>, <<42877,42877,1,-35332>>, <<42878,42886,2,1>>,
      <<42891,42891,1,1>>, <<42893,42893,1,-42280>>, <<42896,42898,2,1>>, <<42902,42920,2,1>>, <<42922,42922,1,-42308>>,
      <<42923,42923,1,-42319>>, <<42924,42924,1,-42315>>, <<42925,42925,1,-42305>>, <<42926,42926,1,-42308>>, <<42928,42928,1,-42258>>,
      <<42929,42929,1,-42282>>, <<42930,42930,1,-42261>>, <<42931,42931,1,928>>, <<42932,42946,2,1>>, <<42948,42948,1,-48>>,
      <<42949,42949,1,-42307>>, <<42950,42950,1,-35384>>, <<42951,42953,2,1>>, <<42960,42960,1,1>>, <<42966,42968,2,1>>,
      <<42997,42997,1,1>> }

\* Lower-case mappings of U+FF21..U+FF3A: <<first, last, step, offset>>.
LowerRuns13 ==
    { <<65313,65338,1,32>> }

\* Lower-case mappings of U+10400..U+10427: <<first, last, step, offset>>.
LowerRuns14 ==
    { <<66560,66599,1,40>> }

\* Lower-case mappings of U+104B0..U+104D3: <<first, last, step, offset>>.
LowerRuns15 ==
    { <<66736,66771,1,40>> }

\* Lower-case mappings of U+10570..U+10595: <<first, last, step, offset>>.
LowerRuns16 ==
    { <<66928,66938,1,39>>, <<66940,66954,1,39>>, <<66956,66962,1,39>>, <<66964,66965,1,39>> }

\* Lower-case mappings of U+10C80..U+10CB2: <<first, last, step, offset>>.
LowerRuns17 ==
    { <<68736,68786,1,64>> }

\* Lower-case mappings of U+118A0..U+118BF: <<first, last, step, offset>>.
LowerRuns18 ==
    { <<71840,71871,1,32>> }

\* Lower-case mappings of U+16E40..U+16E5F: <<first, last, step, offset>>.
LowerRuns19 ==
    { <<93760,93791,1,32>> }

\* Lower-case mappings of U+1E900..U+1E921: <<first, last, step, offset>>.
LowerRuns20 ==
    { <<125184,125217,1,34>> }

\* The part of the table that can hold c.
LowerRunsOf(c) ==
    IF c < 65 THEN {} ELSE IF c <= 90 THEN LowerRuns1
    ELSE IF c < 192 THEN {} ELSE IF c <= 590 THEN LowerRuns2
    ELSE IF c < 880 THEN {} ELSE IF c <= 1366 THEN LowerRuns3
    ELSE IF c < 4256 THEN {} ELSE IF c <= 4301 THEN LowerRuns4
    ELSE IF c < 5024 THEN {} ELSE IF c <= 5109 THEN LowerRuns5
    ELSE IF c < 7312 THEN {} ELSE IF c <= 7359 THEN LowerRuns6
    ELSE IF c < 7680 THEN {} ELSE IF c <= 8188 THEN LowerRuns7
    ELSE IF c < 8486 THEN {} ELSE IF c <= 8579 THEN LowerRuns8
    ELSE IF c < 9398 THEN {} ELSE IF c <= 9423 THEN LowerRuns9
    ELSE IF c < 11264 THEN {} ELSE IF c <= 11506 THEN LowerRuns10
    ELSE IF c < 42560 THEN {} ELSE IF c <= 42650 THEN LowerRuns11
    ELSE IF c < 42786 THEN {} ELSE IF c <= 42997 THEN LowerRuns12
    ELSE IF c < 65313 THEN {} ELSE IF c <= 65338 THEN LowerRuns13
    ELSE IF c < 66560 THEN {} ELSE IF c <= 66599 THEN LowerRuns14
    ELSE IF c < 66736 THEN {} ELSE IF c <= 66771 THEN LowerRuns15
    ELSE IF c < 66928 THEN {} ELSE IF c <= 66965 THEN LowerRuns16
    ELSE IF c < 68736 THEN {} ELSE IF c <= 68786 THEN LowerRuns17
    ELSE IF c < 71840 THEN {} ELSE IF c <= 71871 THEN LowerRuns18
    ELSE IF c < 93760 THEN {} ELSE IF c <= 93791 THEN LowerRuns19
    ELSE IF c < 125184 THEN {} ELSE IF c <= 125217 THEN LowerRuns20
    ELSE {}

\* The one element of a set of at most one number, or d when it is empty.
OneOr(S, d) == IF S = {} THEN d ELSE CHOOSE x \in S : TRUE

\* chr(c).lower(): the lower-case mapping of one code point, a text of one
\* code point except for U+0130, whose lower case is "i" and U+0307.
LowerChar(c) ==
    IF c = 304 THEN <<105, 775>>
    ELSE <<OneOr({c + r[4] : r \in {q \in LowerRunsOf(c) :
                     q[1] <= c /\ c <= q[2] /\ (c - q[1]) % q[3] = 0}}, c)>>

\* Case_Ignorable code points (Unicode 14.0), as <<first, last>> ranges.
CaseIgnorableRanges ==
    { <<39,39>>, <<46,46>>, <<58,58>>, <<94,94>>, <<96,96>>, <<168,168>>, <<173,173>>, <<175,175>>,
      <<180,180>>, <<183,184>>, <<688,879>>, <<884,885>>, <<890,890>>, <<900,901>>, <<903,903>>, <<1155,1161>>,
      <<1369,1369>>, <<1375,1375>>, <<1425,1469>>, <<1471,1471>>, <<1473,1474>>, <<1476,1477>>, <<1479,1479>>, <<1524,1524>>,
      <<1536,1541>>, <<1552,1562>>, <<1564,1564>>, <<1600,1600>>, <<1611,1631>>, <<1648,1648>>, <<1750,1757>>, <<1759,1768>>,
      <<1770,1773>>, <<1807,1807>>, <<1809,1809>>, <<1840,1866>>, <<1958,1968>>, <<2027,2037>>, <<2042,2042>>, <<2045,2045>>,
      <<2070,2093>>, <<2137,2139>>, <<2184,2184>>, <<2192,2193>>, <<2200,2207>>, <<2249,2306>>, <<2362,2362>>, <<2364,2364>>,
      <<2369,2376>>, <<2381,2381>>, <<2385,2391>>, <<2402,2403>>, <<2417,2417>>, <<2433,2433>>, <<2492,2492>>, <<2497,2500>>,
      <<2509,2509>>, <<2530,2531>>, <<2558,2558>>, <<2561,2562>>, <<2620,2620>>, <<2625,2626>>, <<2631,2632>>, <<2635,2637>>,
      <<2641,2641>>, <<2672,2673>>, <<2677,2677>>, <<2689,2690>>, <<2748,2748>>, <<2753,2757>>, <<2759,2760>>, <<2765,2765>>,
      <<2786,2787>>, <<2810,2815>>, <<2817,2817>>, <<2876,2876>>, <<2879,2879>>, <<2881,2884>>, <<2893,2893>>, <<2901,2902>>,
      <<2914,2915>>, <<2946,2946>>, <<3008,3008>>, <<3021,3021>>, <<3072,3072>>, <<3076,3076>>, <<3132,3132>>, <<3134,3136>>,
      <<3142,3144>>, <<3146,3149>>, <<3157,3158>>, <<3170,3171>>, <<3201,3201>>, <<3260,3260>>, <<3263,3263>>, <<3270,3270>>,
      <<3276,3277>>, <<3298,3299>>, <<3328,3329>>, <<3387,3388>>, <<3393,3396>>, <<3405,3405>>, <<3426,3427>>, <<3457,3457>>,
      <<3530,3530>>, <<3538,3540>>, <<3542,3542>>, <<3633,3633>>, <<3636,3642>>, <<3654,3662>>, <<3761,3761>>, <<3764,3772>>,
      <<3782,3782>>, <<3784,3789>>, <<3864,3865>>, <<3893,3893>>, <<3895,3895>>, <<3897,3897>>, <<3953,3966>>, <<3968,3972>>,
      <<3974,3975>>, <<3981,3991>>, <<3993,4028>>, <<4038,4038>>, <<4141,4144>>, <<4146,4151>>, <<4153,4154>>, <<4157,4158>>,
      <<4184,4185>>, <<4190,4192>>, <<4209,4212>>, <<4226,4226>>, <<4229,4230>>, <<4237,4237>>, <<4253,4253>>, <<4348,4348>>,
      <<4957,4959>>, <<5906,5908>>, <<5938,5939>>, <<5970,5971>>, <<6002,6003>>, <<6068,6069>>, <<6071,6077>>, <<6086,6086>>,
      <<6089,6099>>, <<6103,6103>>, <<6109,6109>>, <<6155,6159>>, <<6211,6211>>, <<6277,6278>>, <<6313,6313>>, <<6432,6434>>,
      <<6439,6440>>, <<6450,6450>>, <<6457,6459>>, <<6679,6680>>, <<6683,6683>>, <<6742,6742>>, <<6744,6750>>, <<6752,6752>>,
      <<6754,6754>>, <<6757,6764>>, <<6771,6780>>, <<6783,6783>>, <<6823,6823>>, <<6832,6862>>, <<6912,6915>>, <<6964,6964>>,
      <<6966,6970>>, <<6972,6972>>, <<6978,6978>>, <<7019,7027>>, <<7040,7041>>, <<7074,7077>>, <<7080,7081>>, <<7083,7085>>,
      <<7142,7142>>, <<7144,7145>>, <<7149,7149>>, <<7151,7153>>, <<7212,7219>>, <<7222,7223>>, <<7288,7293>>, <<7376,7378>>,
      <<7380,7392>>, <<7394,7400>>, <<7405,7405>>, <<7412,7412>>, <<7416,7417>>, <<7468,7530>>, <<7544,7544>>, <<7579,7679>>,
      <<8125,8125>>, <<8127,8129>>, <<8141,8143>>, <<8157,8159>>, <<8173,8175>>, <<8189,8190>>, <<8203,8207>>, <<8216,8217>>,
      <<8228,8228>>, <<8231,8231>>, <<8234,8238>>, <<8288,8292>>, <<8294,8303>>, <<8305,8305>>, <<8319,8319>>, <<8336,8348>>,
      <<8400,8432>>, <<11388,11389>>, <<11503,11505>>, <<11631,11631>>, <<11647,11647>>, <<11744,11775>>, <<11823,11823>>, <<12293,12293>>,
      <<12330,12333>>, <<12337,12341>>, <<12347,12347>>, <<12441,12446>>, <<12540,12542>>, <<40981,40981>>, <<42232,42237>>, <<42508,42508>>,
      <<42607,42610>>, <<42612,42621>>, <<42623,42623>>, <<42652,42655>>, <<42736,42737>>, <<42752,42785>>, <<42864,42864>>, <<42888,42890>>,
      <<42994,42996>>, <<43000,43001>>, <<43010,43010>>, <<43014,43014>>, <<43019,43019>>, <<43045,43046>>, <<43052,43052>>, <<43204,43205>>,
      <<43232,43249>>, <<43263,43263>>, <<43302,43309>>, <<43335,43345>>, <<43392,43394>>, <<43443,43443>>, <<43446,43449>>, <<43452,43453>>,
      <<43471,43471>>, <<43493,43494>>, <<43561,43566>>, <<43569,43570>>, <<43573,43574>>, <<43587,43587>>, <<43596,43596>>, <<43632,43632>>,
      <<43644,43644>>, <<43696,43696>>, <<43698,43700>>, <<43703,43704>>, <<43710,43711>>, <<43713,43713>>, <<43741,43741>>, <<43756,43757>>,
      <<43763,43764>>, <<43766,43766>>, <<43867,43871>>, <<43881,43883>>, <<44005,44005>>, <<44008,44008>>, <<44013,44013>>, <<64286,64286>>,
      <<64434,64450>>, <<65024,65039>>, <<65043,65043>>, <<65056,65071>>, <<65106,65106>>, <<65109,65109>>, <<65279,65279>>, <<65287,65287>>,
      <<65294,65294>>, <<65306,65306>>, <<65342,65342>>, <<65344,65344>>, <<65392,65392>>, <<65438,65439>>, <<65507,65507>>, <<65529,65531>>,
      <<66045,66045>>, <<66272,66272>>, <<66422,66426>>, <<67456,67461>>, <<67463,67504>>, <<67506,67514>>, <<68097,68099>>, <<68101,68102>>,
      <<68108,68111>>, <<68152,68154>>, <<68159,68159>>, <<68325,68326>>, <<68900,68903>>, <<69291,69292>>, <<69446,69456>>, <<69506,69509>>,
      <<69633,69633>>, <<69688,69702>>, <<69744,69744>>, <<69747,69748>>, <<69759,69761>>, <<69811,69814>>, <<69817,69818>>, <<69821,69821>>,
      <<69826,69826>>, <<69837,69837>>, <<69888,69890>>, <<69927,69931>>, <<69933,69940>>, <<70003,70003>>, <<70016,70017>>, <<70070,70078>>,
      <<70089,70092>>, <<70095,70095>>, <<70191,70193>>, <<70196,70196>>, <<70198,70199>>, <<70206,70206>>, <<70367,70367>>, <<70371,70378>>,
      <<70400,70401>>, <<70459,70460>>, <<70464,70464>>, <<70502,70508>>, <<70512,70516>>, <<70712,70719>>, <<70722,70724>>, <<70726,70726>>,
      <<70750,70750>>, <<70835,70840>>, <<70842,70842>>, <<70847,70848>>, <<70850,70851>>, <<71090,71093>>, <<71100,71101>>, <<71103,71104>>,
      <<71132,71133>>, <<71219,71226>>, <<71229,71229>>, <<71231,71232>>, <<71339,71339>>, <<71341,71341>>, <<71344,71349>>, <<71351,71351>>,
      <<71453,71455>>, <<71458,71461>>, <<71463,71467>>, <<71727,71735>>, <<71737,71738>>, <<71995,71996>>, <<71998,71998>>, <<72003,72003>>,
      <<72148,72151>>, <<72154,72155>>, <<72160,72160>>, <<72193,72202>>, <<72243,72248>>, <<72251,72254>>, <<72263,72263>>, <<72273,72278>>,
      <<72281,72283>>, <<72330,72342>>, <<72344,72345>>, <<72752,72758>>, <<72760,72765>>, <<72767,72767>>, <<72850,72871>>, <<72874,72880>>,
      <<72882,72883>>, <<72885,72886>>, <<73009,73014>>, <<73018,73018>>, <<73020,73021>>, <<73023,73029>>, <<73031,73031>>, <<73104,73105>>,
      <<73109,73109>>, <<73111,73111>>, <<73459,73460>>, <<78896,78904>>, <<92912,92916>>, <<92976,92982>>, <<92992,92995>>, <<94031,94031>>,
      <<94095,94111>>, <<94176,94177>>, <<94179,94180>>, <<110576,110579>>, <<110581,110587>>, <<110589,110590>>, <<113821,113822>>, <<113824,113827>>,
      <<118528,118573>>, <<118576,118598>>, <<119143,119145>>, <<119155,119170>>, <<119173,119179>>, <<119210,119213>>, <<119362,119364>>, <<121344,121398>>,
      <<121403,121452>>, <<121461,121461>>, <<121476,121476>>, <<121499,121503>>, <<121505,121519>>, <<122880,122886>>, <<122888,122904>>, <<122907,122913>>,
      <<122915,122916>>, <<122918,122922>>, <<123184,123197>>, <<123566,123566>>, <<123628,123631>>, <<125136,125142>>, <<125252,125259>>, <<127995,127999>>,
      <<917505,917505>>, <<917536,917631>>, <<917760,917999>> }

\* Cased code points that are not Case_Ignorable (the rule consults the
\* cased property on such code points only), as <<first, last>> ranges.
CasedRanges ==
    { <<65,90>>, <<97,122>>, <<170,170>>, <<181,181>>, <<186,186>>, <<192,214>>, <<216,246>>, <<248,442>>,
      <<444,447>>, <<452,659>>, <<661,687>>, <<880,883>>, <<886,887>>, <<891,893>>, <<895,895>>, <<902,902>>,
      <<904,906>>, <<908,908>>, <<910,929>>, <<931,1013>>, <<1015,1153>>, <<1162,1327>>, <<1329,1366>>, <<1376,1416>>,
      <<4256,4293>>, <<4295,4295>>, <<4301,4301>>, <<4304,4346>>, <<4349,4351>>, <<5024,5109>>, <<5112,5117>>, <<7296,7304>>,
      <<7312,7354>>, <<7357,7359>>, <<7424,7467>>, <<7531,7543>>, <<7545,7578>>, <<7680,7957>>, <<7960,7965>>, <<7968,8005>>,
      <<8008,8013>>, <<8016,8023>>, <<8025,8025>>, <<8027,8027>>, <<8029,8029>>, <<8031,8061>>, <<8064,8116>>, <<8118,8124>>,
      <<8126,8126>>, <<8130,8132>>, <<8134,8140>>, <<8144,8147>>, <<8150,8155>>, <<8160,8172>>, <<8178,8180>>, <<8182,8188>>,
      <<8450,8450>>, <<8455,8455>>, <<8458,8467>>, <<8469,8469>>, <<8473,8477>>, <<8484,8484>>, <<8486,8486>>, <<8488,8488>>,
      <<8490,8493>>, <<8495,8500>>, <<8505,8505>>, <<8508,8511>>, <<8517,8521>>, <<8526,8526>>, <<8544,8575>>, <<8579,8580>>,
      <<9398,9449>>, <<11264,11387>>, <<11390,11492>>, <<11499,11502>>, <<11506,11507>>, <<11520,11557>>, <<11559,11559>>, <<11565,11565>>,
      <<42560,42605>>, <<42624,42651>>, <<42786,42863>>, <<42865,42887>>, <<42891,42894>>, <<42896,42954>>, <<42960,42961>>, <<42963,42963>>,
      <<42965,42969>>, <<42997,42998>>, <<43002,43002>>, <<43824,43866>>, <<43872,43880>>, <<43888,43967>>, <<64256,64262>>, <<64275,64279>>,
      <<65313,65338>>, <<65345,65370>>, <<66560,66639>>, <<66736,66771>>, <<66776,66811>>, <<66928,66938>>, <<66940,66954>>, <<66956,66962>>,
      <<66964,66965>>, <<66967,66977>>, <<66979,66993>>, <<66995,67001>>, <<67003,67004>>, <<68736,68786>>, <<68800,68850>>, <<71840,71903>>,
      <<93760,93823>>, <<119808,119892>>, <<119894,119964>>, <<119966,119967>>, <<119970,119970>>, <<119973,119974>>, <<119977,119980>>, <<119982,119993>>,
      <<119995,119995>>, <<119997,120003>>, <<120005,120069>>, <<120071,120074>>, <<120077,120084>>, <<120086,120092>>, <<120094,120121>>, <<120123,120126>>,
      <<120128,120132>>, <<120134,120134>>, <<120138,120144>>, <<120146,120485>>, <<120488,120512>>, <<120514,120538>>, <<120540,120570>>, <<120572,120596>>,
      <<120598,120628>>, <<120630,120654>>, <<120656,120686>>, <<120688,120712>>, <<120714,120744>>, <<120746,120770>>, <<120772,120779>>, <<122624,122633>>,
      <<122635,122654>>, <<125184,125251>>, <<127280,127305>>, <<127312,127337>>, <<127344,127369>> }

\* The case class of a code point: case-ignorable, else cased, else neither.
CaseClass(c) ==
    IF InRanges(c, CaseIgnorableRanges) THEN "ignorable"
    ELSE IF InRanges(c, CasedRanges) THEN "cased"
    ELSE "other"

\* Given the case class of every code point of a text: position i is in the
\* Final_Sigma context when the nearest position before it that is not
\* case-ignorable is cased, and the nearest one after it that is not
\* case-ignorable (if any) is not cased.
FinalSigmaOf(cls, i) ==
    LET before == {j \in 1..(i - 1) : cls[j] # "ignorable"}
        after == {j \in (i + 1)..Len(cls) : cls[j] # "ignorable"}
    IN  /\ before # {}
        /\ cls[CHOOSE j \in before : \A k \in before : k <= j] = "cased"
        /\ \/ after = {}
           \/ cls[CHOOSE j \in after : \A k \in after : j <= k] # "cased"

\* U+03A3 at s[i] is in the Final_Sigma context.
FinalSigma(s, i) == FinalSigmaOf([j \in 1..Len(s) |-> CaseClass(s[j])], i)

RECURSIVE LowerFrom(_, _)
LowerFrom(s, i) ==
    IF i > Len(s) THEN <<>>
    ELSE (IF s[i] = 931
          THEN <<IF FinalSigma(s, i) THEN 962 ELSE 963>>
          ELSE LowerChar(s[i])) \o LowerFrom(s, i + 1)

\* str.lower()
Lower(s) == LowerFrom(s, 1)

\* `w in blob` for Python strings: w occurs as a contiguous substring.
Contains(blob, w) ==
    \E i \in 0..(Len(blob) - Len(w)) : \A j \in 1..Len(w) : blob[i + j] = w[j]

\* str.startswith(p)
StartsWith(s, p) ==
    /\ Len(p) <= Len(s)
    /\ \A j \in 1..Len(p) : s[j] = p[j]

\* Code points for which Py_UNICODE_ISSPACE holds, as <<first, last>> ranges.
SpaceRanges ==
    { <<9,13>>, <<28,32>>, <<133,133>>, <<160,160>>, <<5760,5760>>, <<8192,8202>>, <<8232,8233>>, <<8239,8239>>,
      <<8287,8287>>, <<12288,12288>> }

\* The white space str.strip() removes.
IsSpace(c) == InRanges(c, SpaceRanges)

\* str.strip(): drop leading and trailing white space.
Strip(s) ==
    LET keep == {i \in 1..Len(s) : ~IsSpace(s[i])}
    IN  IF keep = {} THEN <<>>
        ELSE LET lo == CHOOSE i \in keep : \A k \in keep : i <= k
                 hi == CHOOSE i \in keep : \A k \in keep : k <= i
             IN  SubSeq(s, lo, hi)

\* any(w in blob for w in words)
ContainsAny(blob, words) == \E w \in words : Contains(blob, w)

\* any(w.lower() in blob for w in words)
ContainsAnyLower(blob, words) == \E w \in words : Contains(blob, Lower(w))

\* (title + " " + summary).lower(), the matching surface of every rule.
Blob(title, summary) == Lower(title \o <<32>> \o summary)

(***************************************************************************)
(* Configuration tables of the source, spelled as code points.             *)
(***************************************************************************)

\* FEEDS: src/radiation_monitor.py lines 22-26 (a list, kept in order)
FEEDS ==
    << <<104,116,116,112,115,58,47,47,119,119,119,45,110,101,119,115,46,105,97,101,97,46,111,114,103,47,70,101,101,100,46,97,115,112,120>>,  \* "https://www-news.iaea.org/Feed.aspx"
       <<104,116,116,112,115,58,47,47,119,119,119,46,110,114,99,46,103,111,118,47,112,117,98,108,105,99,45,105,110,118,111,108,118,101,47,114,115,115,63,102,101,101,100,61,101,118,101,110,116>>,  \* "https://www.nrc.gov/public-involve/rss?feed=event"
       <<104,116,116,112,115,58,47,47,119,119,119,46,110,114,99,46,103,111,118,47,112,117,98,108,105,99,45,105,110,118,111,108,118,101,47,114,115,115,63,102,101,101,100,61,110,101,119,115>>  \* "https://www.nrc.gov/public-involve/rss?feed=news"
    >>

\* GOOGLE_NEWS_QUERIES: src/radiation_monitor.py lines 29-36 (a list, kept in order)
GOOGLE_NEWS_QUERIES ==
    << <<114,97,100,105,97,116,105,111,110,32,108,101,97,107>>,  \* "radiation leak"
       <<114,97,100,105,111,97,99,116,105,118,101,32,114,101,108,101,97,115,101>>,  \* "radioactive release"
       <<114,97,100,105,111,108,111,103,105,99,97,108,32,101,109,101,114,103,101,110,99,121>>,  \* "radiological emergency"
       <<110,117,99,108,101,97,114,32,105,110,99,105,100,101,110,116,32,114,97,100,105,97,116,105,111,110>>,  \* "nuclear incident radiation"
       <<73,65,69,65,32,97,108,101,114,116,32,114,97,100,105,97,116,105,111,110>>,  \* "IAEA alert radiation"
       <<110,117,99,108,101,97,114,32,112,108,97,110,116,32,114,97,100,105,111,97,99,116,105,118,101,32,114,101,108,101,97,115,101>>  \* "nuclear plant radioactive release"
    >>

\* KEYWORDS: src/radiation_monitor.py lines 46-55 (membership only, kept as a set)
KEYWORDS ==
    { <<114,97,100,105,97,116,105,111,110>>,  \* "radiation"
       <<114,97,100,105,111,97,99,116,105,118,101>>,  \* "radioactive"
       <<114,97,100,105,111,108,111,103,105,99,97,108>>,  \* "radiological"
       <<110,117,99,108,101,97,114>>,  \* "nuclear"
       <<108,101,97,107>>,  \* "leak"
       <<114,101,108,101,97,115,101>>,  \* "release"
       <<99,111,110,116,97,109,105,110,97,116,105,111,110>>,  \* "contamination"
       <<101,118,97,99,117,97,116,105,111,110>>,  \* "evacuation"
       <<105,110,99,105,100,101,110,116>>,  \* "incident"
       <<101,109,101,114,103,101,110,99,121>>,  \* "emergency"
       <<105,97,101,97>>,  \* "iaea"
       <<105,110,101,115>>,  \* "ines"
       <<110,114,99>>,  \* "nrc"
       <<116,114,105,116,105,117,109>>,  \* "tritium"
       <<105,111,100,105,110,101>>,  \* "iodine"
       <<99,101,115,105,117,109>>,  \* "cesium"
       <<99,97,101,115,105,117,109>>,  \* "caesium"
       <<114,101,97,99,116,111,114>>,  \* "reactor"
       <<112,108,97,110,116>>,  \* "plant"
       <<112,111,119,101,114,32,115,116,97,116,105,111,110>>,  \* "power station"
       <<1573,1588,1593,1575,1593>>,  \* Arabic phrase, line 53
       <<1606,1608,1608,1610>>,  \* Arabic phrase, line 53
       <<1578,1587,1585,1576>>,  \* Arabic phrase, line 53
       <<1605,1608,1575,1583,32,1605,1588,1593,1577>>,  \* Arabic phrase, line 53
       <<1578,1604,1608,1579,32,1573,1588,1593,1575,1593,1610>>,  \* Arabic phrase, line 53
       <<1591,1608,1575,1585,1574,32,1573,1588,1593,1575,1593,1610,1577>>,  \* Arabic phrase, line 53
       <<1605,1601,1575,1593,1604>>,  \* Arabic phrase, line 54
       <<1605,1581,1591,1577,32,1606,1608,1608,1610,1577>>,  \* Arabic phrase, line 54
       <<1573,1582,1604,1575,1569>>  \* Arabic phrase, line 54
    }

\* NOISE_BLOCK: src/radiation_monitor.py lines 60-63 (membership only, kept as a set)
NOISE_BLOCK ==
    { <<115,116,111,99,107>>,  \* "stock"
       <<115,104,97,114,101,115>>,  \* "shares"
       <<109,97,114,107,101,116>>,  \* "market"
       <<99,114,121,112,116,111>>,  \* "crypto"
       <<98,105,116,99,111,105,110>>,  \* "bitcoin"
       <<109,111,118,105,101>>,  \* "movie"
       <<103,97,109,101>>,  \* "game"
       <<109,117,115,105,99>>,  \* "music"
       <<102,101,115,116,105,118,97,108>>,  \* "festival"
       <<110,117,99,108,101,97,114,32,102,97,109,105,108,121>>  \* "nuclear family"
    }

\* REGULATORY_WORDS: src/radiation_monitor.py lines 68-78 (membership only, kept as a set)
REGULATORY_WORDS ==
    { <<102,114,97,109,101,119,111,114,107>>,  \* "framework"
       <<114,101,103,117,108,97,116,111,114,121>>,  \* "regulatory"
       <<114,101,103,117,108,97,116,105,111,110>>,  \* "regulation"
       <<114,117,108,101,109,97,107,105,110,103>>,  \* "rulemaking"
       <<99,111,109,109,101,110,116,32,112,101,114,105,111,100>>,  \* "comment period"
       <<112,117,98,108,105,99,32,99,111,109,109,101,110,116>>,  \* "public comment"
       <<99,111,110,115,117,108,116,97,116,105,111,110>>,  \* "consultation"
       <<112,111,108,105,99,121>>,  \* "policy"
       <<103,117,105,100,97,110,99,101>>,  \* "guidance"
       <<119,111,114,107,115,104,111,112>>,  \* "workshop"
       <<112,117,98,108,105,99,32,109,101,101,116,105,110,103>>,  \* "public meeting"
       <<108,105,99,101,110,115,105,110,103,32,102,114,97,109,101,119,111,114,107>>,  \* "licensing framework"
       <<112,114,111,112,111,115,101,100,32,114,117,108,101>>,  \* "proposed rule"
       <<114,101,113,117,101,115,116,32,102,111,114,32,105,110,102,111,114,109,97,116,105,111,110>>,  \* "request for information"
       <<114,102,105>>,  \* "rfi"
       <<99,111,109,109,105,115,115,105,111,110,32,109,101,101,116,105,110,103>>,  \* "commission meeting"
       <<115,116,97,107,101,104,111,108,100,101,114>>,  \* "stakeholder"
       <<112,114,101,115,115,32,114,101,108,101,97,115,101>>,  \* "press release"
       <<112,101,116,105,116,105,111,110>>,  \* "petition"
       <<104,101,97,114,105,110,103>>,  \* "hearing"
       <<105,110,116,101,114,118,101,110,101>>,  \* "intervene"
       <<97,112,112,108,105,99,97,116,105,111,110>>,  \* "application"
       <<108,105,109,105,116,101,100,32,119,111,114,107,32,97,117,116,104,111,114,105,122,97,116,105,111,110>>,  \* "limited work authorization"
       <<108,119,97>>,  \* "lwa"
       <<110,111,116,105,99,101>>,  \* "notice"
       <<97,110,110,111,117,110,99,101,115>>,  \* "announces"
       <<111,112,101,110,115>>,  \* "opens"
       <<97,99,99,101,112,116,105,110,103,32,97,112,112,108,105,99,97,116,105,111,110,115>>  \* "accepting applications"
    }

\* RADIATION_EVIDENCE: src/radiation_monitor.py lines 83-92 (membership only, kept as a set)
RADIATION_EVIDENCE ==
    { <<114,97,100,105,97,116,105,111,110>>,  \* "radiation"
       <<114,97,100,105,111,97,99,116,105,118,101>>,  \* "radioactive"
       <<114,97,100,105,111,108,111,103,105,99,97,108>>,  \* "radiological"
       <<114,97,100,105,111,97,99,116,105,118,101,32,114,101,108,101,97,115,101>>,  \* "radioactive release"
       <<114,97,100,105,97,116,105,111,110,32,114,101,108,101,97,115,101>>,  \* "radiation release"
       <<99,111,110,116,97,109,105,110,97,116,105,111,110>>,  \* "contamination"
       <<100,111,115,101>>,  \* "dose"
       <<100,111,115,101,32,114,97,116,101>>,  \* "dose rate"
       <<115,105,101,118,101,114,116>>,  \* "sievert"
       <<98,101,99,113,117,101,114,101,108>>,  \* "becquerel"
       <<116,114,105,116,105,117,109>>,  \* "tritium"
       <<105,111,100,105,110,101>>,  \* "iodine"
       <<99,101,115,105,117,109>>,  \* "cesium"
       <<99,97,101,115,105,117,109>>,  \* "caesium"
       <<105,110,101,115>>,  \* "ines"
       <<1573,1588,1593,1575,1593>>,  \* Arabic phrase, line 90
       <<1605,1608,1575,1583,32,1605,1588,1593,1577>>,  \* Arabic phrase, line 90
       <<1578,1604,1608,1579,32,1573,1588,1593,1575,1593,1610>>,  \* Arabic phrase, line 90
       <<1580,1585,1593,1577>>,  \* Arabic phrase, line 90
       <<1605,1593,1583,1604,32,1575,1604,1580,1585,1593,1577>>,  \* Arabic phrase, line 90
       <<1587,1610,1601,1585,1578>>,  \* Arabic phrase, line 91
       <<1576,1610,1603,1585,1610,1604>>,  \* Arabic phrase, line 91
       <<1578,1585,1610,1578,1610,1608,1605>>,  \* Arabic phrase, line 91
       <<1610,1608,1583>>,  \* Arabic phrase, line 91
       <<1587,1610,1586,1610,1608,1605>>,  \* Arabic phrase, line 91
       <<105,110,101,115>>  \* "ines"
    }

\* SEVERITY_HIGH: src/radiation_monitor.py lines 97-107 (membership only, kept as a set)
SEVERITY_HIGH ==
    { <<115,116,97,116,101,32,111,102,32,101,109,101,114,103,101,110,99,121>>,  \* "state of emergency"
       <<100,101,99,108,97,114,101,100>>,  \* "declared"
       <<101,120,112,108,111,115,105,111,110>>,  \* "explosion"
       <<102,105,114,101>>,  \* "fire"
       <<109,101,108,116,100,111,119,110>>,  \* "meltdown"
       <<99,111,114,101>>,  \* "core"
       <<99,111,110,116,97,105,110,109,101,110,116>>,  \* "containment"
       <<117,110,99,111,110,116,114,111,108,108,101,100>>,  \* "uncontrolled"
       <<115,112,105,107,101,32,105,110,32,114,97,100,105,97,116,105,111,110>>,  \* "spike in radiation"
       <<111,102,102,115,105,116,101,32,100,111,115,101>>,  \* "offsite dose"
       <<100,111,115,101,32,114,97,116,101>>,  \* "dose rate"
       <<105,110,101,115,32,51>>,  \* "ines 3"
       <<105,110,101,115,32,52>>,  \* "ines 4"
       <<105,110,101,115,32,53>>,  \* "ines 5"
       <<105,110,101,115,32,54>>,  \* "ines 6"
       <<105,110,101,115,32,55>>,  \* "ines 7"
       <<1573,1593,1604,1575,1606,32,1581,1575,1604,1577,32,1591,1608,1575,1585,1574>>,  \* Arabic phrase, line 104
       <<1575,1606,1601,1580,1575,1585>>,  \* Arabic phrase, line 104
       <<1581,1585,1610,1602>>,  \* Arabic phrase, line 104
       <<1575,1606,1589,1607,1575,1585>>,  \* Arabic phrase, line 104
       <<1602,1604,1576,32,1575,1604,1605,1601,1575,1593,1604>>,  \* Arabic phrase, line 104
       <<1575,1581,1578,1608,1575,1569>>,  \* Arabic phrase, line 104
       <<1582,1575,1585,1580,32,1575,1604,1587,1610,1591,1585,1577>>,  \* Arabic phrase, line 105
       <<1575,1585,1578,1601,1575,1593,32,1575,1604,1573,1588,1593,1575,1593>>,  \* Arabic phrase, line 105
       <<1582,1575,1585,1580,32,1575,1604,1605,1608,1602,1593>>,  \* Arabic phrase, line 105
       <<1605,1593,1583,1604,32,1575,1604,1580,1585,1593,1577>>,  \* Arabic phrase, line 105
       <<1605,1587,1578,1608,1609,32,105,110,101,115>>  \* Arabic phrase, line 106
    }

\* SEVERITY_MED: src/radiation_monitor.py lines 108-116 (membership only, kept as a set)
SEVERITY_MED ==
    { <<108,101,97,107>>,  \* "leak"
       <<115,112,105,108,108>>,  \* "spill"
       <<115,104,117,116,100,111,119,110>>,  \* "shutdown"
       <<115,99,114,97,109>>,  \* "scram"
       <<105,110,99,105,100,101,110,116>>,  \* "incident"
       <<105,110,118,101,115,116,105,103,97,116,105,111,110>>,  \* "investigation"
       <<102,97,117,108,116>>,  \* "fault"
       <<112,114,101,99,97,117,116,105,111,110>>,  \* "precaution"
       <<109,105,110,111,114,32,114,101,108,101,97,115,101>>,  \* "minor release"
       <<109,111,110,105,116,111,114,105,110,103,32,105,110,99,114,101,97,115,101,100>>,  \* "monitoring increased"
       <<115,97,102,101,116,121,32,99,111,110,99,101,114,110>>,  \* "safety concern"
       <<1578,1587,1585,1576>>,  \* Arabic phrase, line 113
       <<1575,1606,1587,1603,1575,1576>>,  \* Arabic phrase, line 113
       <<1573,1610,1602,1575,1601>>,  \* Arabic phrase, line 113
       <<1573,1610,1602,1575,1601,32,1591,1575,1585,1574>>,  \* Arabic phrase, line 113
       <<1581,1575,1583,1579>>,  \* Arabic phrase, line 113
       <<1578,1581,1602,1610,1602>>,  \* Arabic phrase, line 114
       <<1593,1591,1604>>,  \* Arabic phrase, line 114
       <<1575,1581,1578,1585,1575,1586,1610>>,  \* Arabic phrase, line 114
       <<1573,1591,1604,1575,1602,32,1591,1601,1610,1601>>,  \* Arabic phrase, line 115
       <<1585,1601,1593,32,1575,1604,1605,1585,1575,1602,1576,1577>>,  \* Arabic phrase, line 115
       <<1605,1582,1575,1608,1601,32,1587,1604,1575,1605,1577>>  \* Arabic phrase, line 115
    }

\* EVAC_WORDS: src/radiation_monitor.py lines 118-118 (membership only, kept as a set)
EVAC_WORDS ==
    { <<101,118,97,99,117,97,116>>,  \* "evacuat"
       <<115,104,101,108,116,101,114>>,  \* "shelter"
       <<1573,1582,1604,1575,1569>>,  \* Arabic phrase, line 118
       <<1573,1610,1608,1575,1569>>  \* Arabic phrase, line 118
    }

\* NEAR_KSA_HINTS: src/radiation_monitor.py lines 120-127 (membership only, kept as a set)
NEAR_KSA_HINTS ==
    { <<115,97,117,100,105>>,  \* "saudi"
       <<114,105,121,97,100,104>>,  \* "riyadh"
       <<106,101,100,100,97,104>>,  \* "jeddah"
       <<114,101,100,32,115,101,97>>,  \* "red sea"
       <<103,117,108,102>>,  \* "gulf"
       <<97,114,97,98,105,97,110,32,103,117,108,102>>,  \* "arabian gulf"
       <<105,114,97,110>>,  \* "iran"
       <<105,114,97,113>>,  \* "iraq"
       <<107,117,119,97,105,116>>,  \* "kuwait"
       <<113,97,116,97,114>>,  \* "qatar"
       <<98,97,104,114,97,105,110>>,  \* "bahrain"
       <<117,97,101>>,  \* "uae"
       <<111,109,97,110>>,  \* "oman"
       <<121,101,109,101,110>>,  \* "yemen"
       <<106,111,114,100,97,110>>,  \* "jordan"
       <<115,121,114,105,97>>,  \* "syria"
       <<108,101,98,97,110,111,110>>,  \* "lebanon"
       <<116,117,114,107,101,121>>,  \* "turkey"
       <<101,103,121,112,116>>,  \* "egypt"
       <<1575,1604,1587,1593,1608,1583,1610,1577>>,  \* Arabic phrase, line 124
       <<1575,1604,1585,1610,1575,1590>>,  \* Arabic phrase, line 124
       <<1580,1583,1577>>,  \* Arabic phrase, line 124
       <<1575,1604,1576,1581,1585,32,1575,1604,1571,1581,1605,1585>>,  \* Arabic phrase, line 124
       <<1575,1604,1582,1604,1610,1580>>,  \* Arabic phrase, line 124
       <<1575,1604,1582,1604,1610,1580,32,1575,1604,1593,1585,1576,1610>>,  \* Arabic phrase, line 124
       <<1573,1610,1585,1575,1606>>,  \* Arabic phrase, line 125
       <<1575,1604,1593,1585,1575,1602>>,  \* Arabic phrase, line 125
       <<1575,1604,1603,1608,1610,1578>>,  \* Arabic phrase, line 125
       <<1602,1591,1585>>,  \* Arabic phrase, line 125
       <<1575,1604,1576,1581,1585,1610,1606>>,  \* Arabic phrase, line 125
       <<1575,1604,1573,1605,1575,1585,1575,1578>>,  \* Arabic phrase, line 125
       <<1593,1615,1605,1575,1606>>,  \* Arabic phrase, line 125
       <<1575,1604,1610,1605,1606>>,  \* Arabic phrase, line 125
       <<1575,1604,1571,1585,1583,1606>>,  \* Arabic phrase, line 126
       <<1587,1608,1585,1610,1575>>,  \* Arabic phrase, line 126
       <<1604,1576,1606,1575,1606>>,  \* Arabic phrase, line 126
       <<1578,1585,1603,1610,1575>>,  \* Arabic phrase, line 126
       <<1605,1589,1585>>  \* Arabic phrase, line 126
    }

\* MAX_AGE_HOURS = 72
MAX_AGE_HOURS == 72

\* SUMMARY_HOURS = {6, 18}
SUMMARY_HOURS == {6, 18}

\* feed.entries[:40]
ENTRY_CAP == 40

(***************************************************************************)
(* Source labels.                                                          *)
(***************************************************************************)

L_IAEA == <<73,65,69,65>>  \* "IAEA"
L_NRC_EVENT == <<78,82,67,32,40,69,118,101,110,116,41>>  \* "NRC (Event)"
L_NRC_NEWS == <<78,82,67,32,40,78,101,119,115,41>>  \* "NRC (News)"
L_GOOGLE == <<71,111,111,103,108,101,32,78,101,119,115>>  \* "Google News"
L_RSS == <<82,83,83>>  \* "RSS"
L_NRC == <<78,82,67>>  \* "NRC", the prefix smart_assess and classify_event test

\* source_label(url)
source_label(url) ==
    IF Contains(url, <<119,119,119,45,110,101,119,115,46,105,97,101,97,46,111,114,103>>)  \* "www-news.iaea.org"
    THEN L_IAEA
    ELSE IF /\ Contains(url, <<110,114,99,46,103,111,118>>)  \* "nrc.gov"
            /\ Contains(url, <<102,101,101,100,61,101,118,101,110,116>>)  \* "feed=event"
    THEN L_NRC_EVENT
    ELSE IF /\ Contains(url, <<110,114,99,46,103,111,118>>)  \* "nrc.gov"
            /\ Contains(url, <<102,101,101,100,61,110,101,119,115>>)  \* "feed=news"
    THEN L_NRC_NEWS
    ELSE IF Contains(url, <<110,101,119,115,46,103,111,111,103,108,101,46,99,111,109>>)  \* "news.google.com"
    THEN L_GOOGLE
    ELSE L_RSS

\* urllib.parse.quote: the text is encoded as UTF-8 (errors="strict"), which
\* raises UnicodeEncodeError on a lone surrogate; letters, digits and
\* "_.-~/" are kept; any other character becomes, for each byte b of its
\* UTF-8 encoding, "%" and the two capital hex digits of b.
UnicodeEncodeError == "UnicodeEncodeError"
IsSurrogate(c) == c \in 55296..57343
HasSurrogate(s) == \E i \in 1..Len(s) : IsSurrogate(s[i])
HexDigit(n) == IF n < 10 THEN 48 + n ELSE 55 + n
\* chr(c).encode("utf-8"): the bytes, or the exception raised.
Utf8(c) ==
    IF IsSurrogate(c) THEN UnicodeEncodeError
    ELSE IF c < 128 THEN <<c>>
    ELSE IF c < 2048 THEN <<192 + (c \div 64), 128 + (c % 64)>>
    ELSE IF c < 65536
    THEN <<224 + (c \div 4096), 128 + ((c \div 64) % 64), 128 + (c % 64)>>
    ELSE <<240 + (c \div 262144), 128 + ((c \div 4096) % 64),
           128 + ((c \div 64) % 64), 128 + (c % 64)>>
RECURSIVE PercentBytes(_)
PercentBytes(bs) ==
    IF bs = <<>> THEN <<>>
    ELSE <<37, HexDigit(Head(bs) \div 16), HexDigit(Head(bs) % 16)>>
         \o PercentBytes(Tail(bs))
\* quote(chr(c)): the quoted text, or the exception raised.
QuoteChar(c) ==
    IF IsSurrogate(c) THEN UnicodeEncodeError
    ELSE IF \/ c \in 48..57 \/ c \in 65..90 \/ c \in 97..122
            \/ c \in {95, 46, 45, 126, 47}
    THEN <<c>>
    ELSE PercentBytes(Utf8(c))
RECURSIVE QuoteAll(_)
QuoteAll(s) == IF s = <<>> THEN <<>> ELSE QuoteChar(Head(s)) \o QuoteAll(Tail(s))
\* quote(s): the quoted text, or the exception raised.
Quote(s) == IF HasSurrogate(s) THEN UnicodeEncodeError ELSE QuoteAll(s)

\* google_news_rss_url(q): the url, or the exception quote(q) raises.
google_news_rss_url(q) ==
    IF HasSurrogate(q) THEN UnicodeEncodeError
    ELSE
    <<104,116,116,112,115,58,47,47,110,101,119,115,46,103,111,111,103,108,101,46,99,111,109,47,114,115,115,47,115,101,97,114,99,104,63,113,61>>  \* "https://news.google.com/rss/search?q="
    \o Quote(q)
    \o <<38,104,108,61,101,110,38,103,108,61,85,83,38,99,101,105,100,61,85,83,58,101,110>>  \* "&hl=en&gl=US&ceid=US:en"

(***************************************************************************)
(* The relevance filter, the classifier and the scorer.                    *)
(***************************************************************************)

\* is_noise(title, summary)
is_noise(title, summary) == ContainsAny(Blob(title, summary), NOISE_BLOCK)

\* is_regulatory(title, summary)
is_regulatory(title, summary) == ContainsAny(Blob(title, summary), REGULATORY_WORDS)

\* has_radiation_evidence(title, summary)
has_radiation_evidence(title, summary) ==
    ContainsAnyLower(Blob(title, summary), RADIATION_EVIDENCE)

\* is_relevant(title, summary): noise blocks first, then any keyword.
is_relevant(title, summary) ==
    IF is_noise(title, summary) THEN FALSE
    ELSE ContainsAnyLower(Blob(title, summary), KEYWORDS)

\* official = source.startswith("IAEA") or source.startswith("NRC")
IsOfficial(source) == StartsWith(source, L_IAEA) \/ StartsWith(source, L_NRC)

\* classify_event with the evacuation rule tested before the regulatory one.
classify_event_evacFirst(title, summary, source) ==
    LET blob == Blob(title, summary)
        official == IsOfficial(source)
        evidence == has_radiation_evidence(title, summary)
        regulatory == is_regulatory(title, summary)
        evac == ContainsAny(blob, EVAC_WORDS)
    IN  IF evac /\ ~evidence THEN "security-noise"
        ELSE IF regulatory /\ ~evidence THEN "regulatory-notice"
        ELSE IF evidence /\ official /\ ContainsAny(blob, SEVERITY_HIGH)
        THEN "confirmed-incident"
        ELSE IF evidence /\ (official \/ ContainsAny(blob, SEVERITY_MED))
        THEN "probable-incident"
        ELSE IF evidence THEN "weak-signal"
        ELSE "unclassified"

\* classify_event(title, summary, source).  The six kinds stand for the
\* six Arabic labels the source returns, in the order of its return
\* statements.
classify_event(title, summary, source) ==
    LET blob == Blob(title, summary)
        official == IsOfficial(source)
        evidence == has_radiation_evidence(title, summary)
        regulatory == is_regulatory(title, summary)
        evac == ContainsAny(blob, EVAC_WORDS)
    IN  IF regulatory /\ ~evidence THEN "regulatory-notice"
        ELSE IF evac /\ ~evidence THEN "security-noise"
        ELSE IF evidence /\ official /\ ContainsAny(blob, SEVERITY_HIGH)
        THEN "confirmed-incident"
        ELSE IF evidence /\ (official \/ ContainsAny(blob, SEVERITY_MED))
        THEN "probable-incident"
        ELSE IF evidence THEN "weak-signal"
        ELSE "unclassified"

\* The severity step of smart_assess: 2 on a high phrase, else 1 on a
\* medium phrase, else 0; then raised to at least 1 by an evacuation word
\* together with radiation evidence.
AssessSev(blob, evac, evidence) ==
    LET sev0 == IF ContainsAny(blob, SEVERITY_HIGH) THEN 2
                ELSE IF ContainsAny(blob, SEVERITY_MED) THEN 1
                ELSE 0
    IN  IF evac /\ ~evidence THEN sev0
        ELSE IF evac /\ evidence THEN (IF sev0 < 1 THEN 1 ELSE sev0)
        ELSE sev0

\* The reasons list of smart_assess, in the order of its appends.  Each
\* tag stands for one Arabic sentence of the source.
AssessReasons(blob, evac, evidence, near, official) ==
    (IF ContainsAny(blob, SEVERITY_HIGH) THEN <<"severity-high">>
     ELSE IF ContainsAny(blob, SEVERITY_MED) THEN <<"severity-medium">>
     ELSE <<>>)
    \o (IF evac /\ ~evidence THEN <<"evacuation-without-evidence">>
        ELSE IF evac /\ evidence THEN <<"evacuation-with-evidence">>
        ELSE <<>>)
    \o (IF evidence THEN <<"evidence">> ELSE <<>>)
    \o (IF near THEN <<"near">> ELSE <<>>)
    \o (IF official THEN <<"official">> ELSE <<>>)

\* The operational table at the end of smart_assess.
AssessTable(sev, near, reasons) ==
    LET rs == IF reasons = <<>> THEN <<"no-clear-indicators">> ELSE reasons
    IN  IF sev = 0 /\ ~near
        THEN [impact |-> "none-expected", readiness |-> "monitor-only",
              score |-> 15, level |-> "low", reasons |-> rs]
        ELSE IF sev = 0 /\ near
        THEN [impact |-> "low", readiness |-> "follow-up",
              score |-> 30, level |-> "medium", reasons |-> rs]
        ELSE IF sev = 1 /\ ~near
        THEN [impact |-> "low", readiness |-> "follow-up",
              score |-> 40, level |-> "medium", reasons |-> rs]
        ELSE IF sev = 1 /\ near
        THEN [impact |-> "moderate", readiness |-> "urgent-follow-up",
              score |-> 60, level |-> "high", reasons |-> rs]
        ELSE [impact |-> IF near THEN "high" ELSE "moderate",
              readiness |-> IF near THEN "immediate-escalation"
                            ELSE "urgent-follow-up",
              score |-> IF near THEN 80 ELSE 65,
              level |-> "high", reasons |-> rs]

\* smart_assess(title, summary, source)
smart_assess(title, summary, source) ==
    LET blob == Blob(title, summary)
        official == IsOfficial(source)
        near == ContainsAnyLower(blob, NEAR_KSA_HINTS)
        evidence == has_radiation_evidence(title, summary)
        evac == ContainsAny(blob, EVAC_WORDS)
        regulatory == is_regulatory(title, summary)
    IN  IF regulatory /\ ~evidence
        THEN [impact |-> "none-expected", readiness |-> "monitor-only",
              score |-> 10, level |-> "low",
              reasons |-> <<"regulatory-not-incident">>]
        ELSE IF source = L_GOOGLE /\ ~evidence
        THEN [impact |-> "none-expected", readiness |-> "monitor-only",
              score |-> 10, level |-> "low",
              reasons |-> <<"google-news-without-evidence">>]
        ELSE AssessTable(AssessSev(blob, evac, evidence), near,
                         AssessReasons(blob, evac, evidence, near, official))

(***************************************************************************)
(* State.                                                                  *)
(***************************************************************************)

VARIABLES
    clock,        \* wall clock, whole hours (what ksa_now() reads)
    file,         \* mewa_state.json: missing, a saved state, or unreadable
    pc,           \* "idle" between runs, "loop" inside main()'s feed loop
    now,          \* main(): now, read once at the start of the run
    seen,         \* main(): seen, fingerprint -> first-seen time
    last,         \* main(): state["last_summary_ymdhr"]; {} is ""
    urlIdx,       \* main(): how many of urls have been fetched
    entries,      \* main(): entries of the current feed still to process
    new_events,   \* main(): new_events
    worst_score,  \* main(): worst_score
    runs,         \* history: runs started so far
    ticks,        \* history: clock steps so far
    sends,        \* history: fingerprint -> item notifications attempted
    rollups,      \* history: window key -> summaries attempted
    cur,          \* history: what the current (or last) run did
    prev,         \* history: what the run before it did, if it saved its state
    everFresh,    \* history: fingerprints fetched at least once while relevant and not too old
    pin,          \* an input of the pure functions
    pout          \* their results on pin

progVars == <<clock, file, pc, now, seen, last, urlIdx, entries, new_events, worst_score>>
histVars == <<runs, ticks, sends, rollups, cur, prev, everFresh>>
pureVars == <<pin, pout>>
vars == <<clock, file, pc, now, seen, last, urlIdx, entries, new_events,
          worst_score, runs, ticks, sends, rollups, cur, prev, everFresh,
          pin, pout>>

(***************************************************************************)
(* Bounds of the model.                                                    *)
(***************************************************************************)

MaxRuns == 2
MaxTicks == 1

\* The clock starts at 05:00 of the fourth day and steps by one hour:
\* a run at the start falls before the 06:00 window, a run one hour later
\* inside it, and an entry exactly 72 hours old at the start is too old then.
StartClock == MAX_AGE_HOURS + 5
TickSteps == {1}

(***************************************************************************)
(* Helpers of main().                                                      *)
(***************************************************************************)

\* sha1(s): s.encode("utf-8") raises UnicodeEncodeError on a lone surrogate;
\* otherwise SHA-1 is taken to be collision free, so the digest of s is
\* modelled by the tagged text itself.
sha1(s) == IF HasSurrogate(s) THEN UnicodeEncodeError ELSE <<"sha1", s>>

\* ksa_now().strftime("%Y%m%d%H"): one key per clock hour.
WindowKey(t) == t

\* now.hour
HourOfDay(t) == t % 24

\* x or y, on text: the first that is not empty.
OrElse(x, y) == IF x # <<>> THEN x ELSE y

\* parse_entry_time(entry): published_parsed if present, else
\* updated_parsed, else None.  A time is a set of at most one hour.
parse_entry_time(entry) ==
    IF entry.published # {} THEN entry.published
    ELSE IF entry.updated # {} THEN entry.updated
    ELSE {}

\* cutoff = now - timedelta(hours=MAX_AGE_HOURS)
Cutoff(t) == t - MAX_AGE_HOURS

\* The age test with the boundary hour counted as too old.
TooOld_inclusive(t, cutoff) == \E x \in t : x <= cutoff

\* `t and t < cutoff`
TooOld(t, cutoff) == \E x \in t : x < cutoff

\* guid = e.get("id") or e.get("guid") or link or (title + label)
Guid(e, label) ==
    OrElse(e.id, OrElse(e.guid, OrElse(Strip(e.link), Strip(e.title) \o label)))

\* label + "::" + guid, the text that is hashed
GidText(e, label) == label \o <<58,58>> \o Guid(e, label)

\* gid = sha1(label + "::" + guid): the fingerprint, or the exception raised.
Fingerprint(e, label) == sha1(GidText(e, label))

\* How the history names an entry: by its fingerprint, or, when sha1 raises
\* on it, by the text that has no fingerprint.
Ident(e, label) ==
    IF HasSurrogate(GidText(e, label)) THEN <<"no-sha1", GidText(e, label)>>
    ELSE Fingerprint(e, label)

\* max() that keeps the later score.
MaxScore_last(a, b) == b

\* worst_score = max(worst_score, assess["score"])
MaxScore(a, b) == IF a >= b THEN a ELSE b

\* urls = list(FEEDS) + [google_news_rss_url(q) for q in GOOGLE_NEWS_QUERIES]
\* (no query of GOOGLE_NEWS_QUERIES holds a surrogate, so no call raises)
Urls == FEEDS \o [i \in 1..Len(GOOGLE_NEWS_QUERIES) |-> google_news_rss_url(GOOGLE_NEWS_QUERIES[i])]

\* An empty "seen" mapping.
EmptySeen == [g \in {} |-> 0]

\* load_state() when it returns: json.load of the file, or the default
\* state when the file does not exist.  The file holds only text keys and
\* text values, which JSON gives back as they were written.
load_state(f) ==
    IF f.kind = "ok" THEN [seen |-> f.seen, last |-> f.last]
    ELSE [seen |-> EmptySeen, last |-> {}]

\* save_state that writes the summary key and forgets the fingerprints.
save_state_withoutSeen(st) == [kind |-> "ok", seen |-> EmptySeen, last |-> st.last]

\* save_state(state): the file after json.dump.
save_state(st) == [kind |-> "ok", seen |-> st.seen, last |-> st.last]

\* should_send_summary(state), the condition on the clock it reads itself.
should_send_summary(t, lastKey) ==
    HourOfDay(t) \in SUMMARY_HOURS /\ lastKey # {WindowKey(t)}

\* The level of the summary from worst_score.
SummaryLevel(w) ==
    IF w < 30 THEN [level |-> "low", impact |-> "none-expected", readiness |-> "monitor-only"]
    ELSE IF w < 60 THEN [level |-> "medium", impact |-> "low", readiness |-> "follow-up"]
    ELSE IF w < 75 THEN [level |-> "high", impact |-> "moderate", readiness |-> "urgent-follow-up"]
    ELSE [level |-> "high", impact |-> "high", readiness |-> "immediate-escalation"]

(***************************************************************************)
(* The feeds: what feedparser.parse(url) may return.                       *)
(***************************************************************************)

Entry(id, link, title, summary, published, updated) ==
    [id |-> id, guid |-> <<>>, link |-> link, title |-> title,
     summary |-> summary, published |-> published, updated |-> updated]

\* IAEA; published exactly 72 hours before StartClock.
E1 == Entry(<<105,97,101,97,45,49>>,  \* "iaea-1"
            <<>>,
            <<82,97,100,105,97,116,105,111,110,32,69,109,101,114,103,101,110,99,121,32,100,101,99,108,97,114,101,100,32,110,101,97,114,32,74,111,114,100,97,110>>,  \* "Radiation Emergency declared near Jordan"
            <<>>, {5}, {})
\* NRC (News); regulatory, identified by its link, no time.
E2 == Entry(<<>>,
            <<104,116,116,112,115,58,47,47,119,119,119,46,110,114,99,46,103,111,118,47,110,50>>,  \* "https://www.nrc.gov/n2"
            <<78,82,67,32,111,112,101,110,115,32,112,117,98,108,105,99,32,99,111,109,109,101,110,116,32,112,101,114,105,111,100,32,111,110,32,110,101,119,32,108,105,99,101,110,115,105,110,103,32,102,114,97,109,101,119,111,114,107>>,  \* "NRC opens public comment period on new licensing framework"
            <<>>, {}, {})
\* Google News; relevant, no radiation evidence; only an updated time.
E3 == Entry(<<>>,
            <<160,12,104,116,116,112,115,58,47,47,110,101,119,115,46,103,111,111,103,108,101,46,99,111,109,47,97,51,12288,32>>,  \* U+00A0, form feed, "https://news.google.com/a3", U+3000, space
            <<69,118,97,99,117,97,116,105,111,110,32,97,102,116,101,114,32,112,108,97,110,116,32,105,110,99,105,100,101,110,116>>,  \* "Evacuation after plant incident"
            <<>>, {}, {70})
\* Google News; radiation evidence; no id and no link, no time.
E4 == Entry(<<>>, <<>>,
            <<77,105,110,111,114,32,116,114,105,116,105,117,109,32,108,101,97,107,32,114,101,112,111,114,116,101,100,32,97,116,32,99,111,97,115,116,97,108,32,112,108,97,110,116,44,32,105,110,118,101,115,116,105,103,97,116,105,111,110,32,117,110,100,101,114,119,97,121>>,  \* "Minor tritium leak reported at coastal plant, investigation underway"
            <<>>, {}, {})
\* IAEA; published long ago, updated recently.
E5 == Entry(<<110,114,99,45,101,53>>,  \* "nrc-e5"
            <<>>,
            <<82,101,97,99,116,111,114,32,115,99,114,97,109,32,105,110,99,105,100,101,110,116>>,  \* "Reactor scram incident"
            <<>>, {0}, {77})
\* IAEA; blocked as noise ("stock", once lowered).
E6 == Entry(<<>>,
            <<104,116,116,112,115,58,47,47,119,119,119,45,110,101,119,115,46,105,97,101,97,46,111,114,103,47,54>>,  \* "https://www-news.iaea.org/6"
            <<78,117,99,108,101,97,114,32,115,116,111,99,8490,32,114,97,108,108,121>>,  \* "Nuclear stoc", U+212A (Kelvin sign), " rally"
            <<>>, {}, {})

\* NRC (Event); radiation evidence; its id holds a lone surrogate, so sha1
\* raises on it; published exactly 72 hours before StartClock.
E7 == Entry(<<110,114,99,45,55296>>,  \* "nrc-" and U+D800
            <<>>,
            <<82,97,100,105,97,116,105,111,110,32,108,101,97,107,32,97,116,32,112,108,97,110,116>>,  \* "Radiation leak at plant"
            <<>>, {5}, {})

\* The entries a source may carry, in feed order.
SourceEntries(label) ==
    IF label = L_IAEA THEN <<E6, E5, E1>>
    ELSE IF label = L_NRC_EVENT THEN <<E7>>
    ELSE IF label = L_NRC_NEWS THEN <<E2>>
    ELSE IF label = L_GOOGLE THEN <<E3, E4>>
    ELSE <<>>

\* The number of Google News queries that may find something (the first
\* ones of GOOGLE_NEWS_QUERIES); the others return no entries.
QueriesWithResults == 1

\* feedparser.parse(url).entries for the i-th url, whose label is given: the
\* entries of the source, or none when the source is unreachable, its feed
\* malformed or, for a Google News query, when the query finds nothing.
FeedResults(i, label) ==
    IF i > Len(FEEDS) + QueriesWithResults THEN {<<>>}
    ELSE {<<>>, SourceEntries(label)}

\* feed.entries[:40]
FirstEntries(feed) ==
    SubSeq(feed, 1, IF Len(feed) < ENTRY_CAP THEN Len(feed) ELSE ENTRY_CAP)

\* The label of each url, computed once.
UrlLabels == [i \in 1..Len(Urls) |-> source_label(Urls[i])]

\* What the loop body computes from an entry and its label alone, computed
\* once per entry of the feeds above: the text functions are pure, so the
\* table holds exactly what the calls return.
SourcedEntries ==
    UNION {{<<UrlLabels[i], SourceEntries(UrlLabels[i])[k]>> :
              k \in 1..Len(SourceEntries(UrlLabels[i]))} : i \in 1..Len(Urls)}

EntryFacts ==
    [p \in SourcedEntries
     |-> LET label == p[1]
             title == Strip(p[2].title)
             summary == Strip(p[2].summary)
         IN  [title |-> title,
              summary |-> summary,
              link |-> Strip(p[2].link),
              relevant |-> is_relevant(title, summary),
              evidence |-> has_radiation_evidence(title, summary),
              assess |-> smart_assess(title, summary, label),
              kind |-> classify_event(title, summary, label),
              encodable |-> ~HasSurrogate(GidText(p[2], label)),
              ident |-> Ident(p[2], label),
              gid |-> Fingerprint(p[2], label)]]

(***************************************************************************)
(* History records.                                                        *)
(***************************************************************************)

NoRun ==
    [outcome |-> "none", start |-> 0, end |-> {}, seenAtStart |-> {},
     qualified |-> {}, assessed |-> {}, suppressed |-> {}, ageSkipped |-> {},
     stale |-> {}, unencodable |-> {},
     sent |-> <<>>, scores |-> {}, failed |-> FALSE, rollup |-> {}]

\* How often fingerprint g was notified in run r.
SentIn(r, g) == Cardinality({i \in DOMAIN r.sent : r.sent[i] = g})

Count(f, k) == IF k \in DOMAIN f THEN f[k] ELSE 0
Bump(f, k) == [x \in DOMAIN f \cup {k} |-> Count(f, x) + IF x = k THEN 1 ELSE 0]

\* The process has exited: nothing of main()'s memory is left.
Exited ==
    /\ pc' = "idle"
    /\ now' = 0
    /\ seen' = EmptySeen
    /\ last' = {}
    /\ urlIdx' = 0
    /\ entries' = <<>>
    /\ new_events' = <<>>
    /\ worst_score' = 0

(***************************************************************************)
(* Initial state: no run yet; no state file, or one left by earlier runs.  *)
(***************************************************************************)

\* Nothing evaluated yet; a result is a set of at most one value.
NoResults == [relevant |-> {}, kind |-> {}, assess |-> {}]

PureIdle == pin = [title |-> <<>>, summary |-> <<>>, source |-> <<>>] /\ pout = NoResults

\* The state file before the first run: none, or the file a run of an hour
\* before left after it processed entry E1 of the IAEA feed.
InitialFiles ==
    { [kind |-> "missing"],
      [kind |-> "ok",
       seen |-> [g \in {Fingerprint(E1, L_IAEA)} |-> StartClock - 1],
       last |-> {}] }

ProgInit ==
    /\ clock = StartClock
    /\ file \in InitialFiles
    /\ pc = "idle"
    /\ now = 0
    /\ seen = EmptySeen
    /\ last = {}
    /\ urlIdx = 0
    /\ entries = <<>>
    /\ new_events = <<>>
    /\ worst_score = 0
    /\ runs = 0
    /\ ticks = 0
    /\ sends = EmptySeen
    /\ rollups = [k \in {} |-> 0]
    /\ cur = NoRun
    /\ prev = NoRun
    /\ everFresh = IF file.kind = "ok" THEN DOMAIN file.seen ELSE {}

Init == ProgInit /\ PureIdle

(***************************************************************************)
(* main(), from its start to the feed loop: load_state, seen, now,         *)
(* new_events, worst_score.                                                *)
(***************************************************************************)

\* load_state() returns: the parsed file, or the default when there is none.
LoadOk ==
    /\ file.kind # "bad"
    /\ LET st == load_state(file)
       IN  /\ seen' = st.seen
           /\ last' = st.last
           /\ cur' = [NoRun EXCEPT !.outcome = "running", !.start = clock,
                                   !.seenAtStart = DOMAIN st.seen]
    /\ pc' = "loop"
    /\ now' = clock
    /\ urlIdx' = 0
    /\ entries' = <<>>
    /\ new_events' = <<>>
    /\ worst_score' = 15

\* load_state() raises: the file exists and json.load cannot parse it.
\* Nothing catches the exception, main() ends there.
LoadRaises ==
    /\ file.kind = "bad"
    /\ cur' = [NoRun EXCEPT !.outcome = "load-failed", !.start = clock]
    /\ Exited

RunStart ==
    /\ pc = "idle"
    /\ runs < MaxRuns
    /\ runs' = runs + 1
    /\ prev' = IF cur.outcome = "saved" THEN cur
               ELSE [NoRun EXCEPT !.outcome = cur.outcome]
    /\ (LoadOk \/ LoadRaises)
    /\ UNCHANGED <<clock, file, ticks, sends, rollups, everFresh, pin, pout>>

(***************************************************************************)
(* for url in urls: feed = feedparser.parse(url), one url per step         *)
(***************************************************************************)

FetchFeed ==
    /\ pc = "loop"
    /\ entries = <<>>
    /\ urlIdx < Len(Urls)
    /\ urlIdx' = urlIdx + 1
    /\ \E feed \in FeedResults(urlIdx + 1, UrlLabels[urlIdx + 1]) :
           entries' = FirstEntries(feed)
    /\ UNCHANGED <<clock, file, pc, now, seen, last, new_events, worst_score>>
    /\ UNCHANGED histVars
    /\ UNCHANGED pureVars

(***************************************************************************)
(* The body of `for e in feed.entries[:40]`, for the next entry.  sendOk   *)
(* is whether telegram_send returns; it raises otherwise (a network error  *)
(* or raise_for_status), nothing catches it and main() ends there.         *)
(***************************************************************************)

\* The loop body for entry e of the source labelled label, f being what the
\* text functions return for it.
LoopBody(e, label, f, sendOk) ==
       LET title == f.title
           link == f.link
           t == parse_entry_time(e)
           gid == f.gid
           ident == f.ident
           stamp == now
           evidence == f.evidence
           assess == f.assess
           kind == f.kind
           fresh == t = {} \/ \A x \in t : x + MAX_AGE_HOURS >= now
       IN  IF ~f.relevant
           THEN /\ entries' = Tail(entries)
                /\ UNCHANGED <<clock, file, pc, now, seen, last, urlIdx, new_events, worst_score>>
                /\ UNCHANGED histVars
           ELSE IF TooOld(t, Cutoff(now))
           THEN /\ entries' = Tail(entries)
                /\ cur' = [cur EXCEPT
                             !.ageSkipped = @ \cup {[id |-> ident, t |-> t]},
                             !.stale = IF fresh THEN @ ELSE @ \cup {ident},
                             !.qualified = IF label = L_GOOGLE /\ ~evidence THEN @ ELSE @ \cup {ident}]
                /\ everFresh' = IF fresh THEN everFresh \cup {ident} ELSE everFresh
                /\ UNCHANGED <<clock, file, pc, now, seen, last, urlIdx, new_events, worst_score>>
                /\ UNCHANGED <<runs, ticks, sends, rollups, prev>>
           ELSE IF ~f.encodable
           THEN \* sha1 raises at line 340: nothing catches it, main() ends there
                /\ cur' = [cur EXCEPT !.outcome = "encode-failed",
                                      !.unencodable = {[id |-> ident, t |-> t]}]
                /\ Exited
                /\ UNCHANGED <<clock, file, runs, ticks, sends, rollups, prev, everFresh>>
           ELSE IF label = L_GOOGLE /\ ~evidence
           THEN /\ entries' = Tail(entries)
                /\ seen' = IF gid \notin DOMAIN seen
                           THEN [g \in DOMAIN seen \cup {gid} |-> IF g = gid THEN stamp ELSE seen[g]]
                           ELSE seen
                /\ cur' = [cur EXCEPT !.suppressed = @ \cup {gid},
                                      !.stale = IF fresh THEN @ ELSE @ \cup {gid}]
                /\ everFresh' = IF fresh THEN everFresh \cup {gid} ELSE everFresh
                /\ UNCHANGED <<clock, file, pc, now, last, urlIdx, new_events, worst_score>>
                /\ UNCHANGED <<runs, ticks, sends, rollups, prev>>
           ELSE IF gid \in DOMAIN seen
           THEN /\ entries' = Tail(entries)
                /\ worst_score' = MaxScore(worst_score, assess.score)
                /\ cur' = [cur EXCEPT !.qualified = @ \cup {gid},
                                      !.assessed = @ \cup {gid},
                                      !.scores = @ \cup {assess.score},
                                      !.stale = IF fresh THEN @ ELSE @ \cup {gid}]
                /\ everFresh' = IF fresh THEN everFresh \cup {gid} ELSE everFresh
                /\ UNCHANGED <<clock, file, pc, now, seen, last, urlIdx, new_events>>
                /\ UNCHANGED <<runs, ticks, sends, rollups, prev>>
           ELSE \* a new fingerprint: mark it, then build and send the alert
                /\ sends' = Bump(sends, gid)
                /\ everFresh' = IF fresh THEN everFresh \cup {gid} ELSE everFresh
                /\ UNCHANGED <<clock, file, runs, ticks, rollups, prev>>
                /\ IF sendOk
                   THEN /\ entries' = Tail(entries)
                        /\ worst_score' = MaxScore(worst_score, assess.score)
                        /\ seen' = [g \in DOMAIN seen \cup {gid} |-> IF g = gid THEN stamp ELSE seen[g]]
                        /\ new_events' = Append(new_events,
                               [label |-> label, title |-> title, link |-> link,
                                assess |-> assess, kind |-> kind])
                        /\ cur' = [cur EXCEPT !.qualified = @ \cup {gid},
                                              !.assessed = @ \cup {gid},
                                              !.scores = @ \cup {assess.score},
                                              !.stale = IF fresh THEN @ ELSE @ \cup {gid},
                                              !.sent = Append(@, gid)]
                        /\ UNCHANGED <<pc, now, last, urlIdx>>
                   ELSE /\ cur' = [cur EXCEPT !.qualified = @ \cup {gid},
                                              !.assessed = @ \cup {gid},
                                              !.scores = @ \cup {assess.score},
                                              !.stale = IF fresh THEN @ ELSE @ \cup {gid},
                                              !.sent = Append(@, gid),
                                              !.failed = TRUE,
                                              !.outcome = "send-failed"]
                        /\ Exited

ProcessEntry(sendOk) ==
    /\ pc = "loop"
    /\ entries # <<>>
    /\ LoopBody(Head(entries), UrlLabels[urlIdx],
                EntryFacts[<<UrlLabels[urlIdx], Head(entries)>>], sendOk)
    /\ UNCHANGED pureVars

(***************************************************************************)
(* After the loop: state["seen"] = seen, the summary gate with the summary *)
(* message, and save_state(state).                                         *)
(***************************************************************************)

FinishRun(sendOk) ==
    /\ pc = "loop"
    /\ entries = <<>>
    /\ urlIdx = Len(Urls)
    /\ LET due == should_send_summary(clock, last)
           newLast == IF due THEN {WindowKey(clock)} ELSE last
           report == [key |-> WindowKey(clock), score |-> worst_score,
                      level |-> SummaryLevel(worst_score).level,
                      news |-> Len(new_events)]
       IN  /\ rollups' = IF due THEN Bump(rollups, WindowKey(clock)) ELSE rollups
           /\ IF due /\ ~sendOk
              THEN /\ cur' = [cur EXCEPT !.rollup = {report}, !.end = {clock},
                                         !.failed = TRUE, !.outcome = "send-failed"]
                   /\ UNCHANGED file
              ELSE /\ cur' = [cur EXCEPT !.rollup = IF due THEN {report} ELSE {},
                                         !.end = {clock}, !.outcome = "saved"]
                   /\ file' = save_state([seen |-> seen, last |-> newLast])
    /\ Exited
    /\ UNCHANGED <<clock, runs, ticks, sends, prev, everFresh>>
    /\ UNCHANGED pureVars

(***************************************************************************)
(* The environment: time passes; the state file is damaged (a write cut    *)
(* short, a disk error, an edit by hand).                                  *)
(***************************************************************************)

\* The clock is read at the start of main() and by should_send_summary.
\* It steps between runs and, inside a run, while main() waits for a feed
\* (before each feedparser.parse) or stands before the gate.
Tick ==
    /\ ticks < MaxTicks
    /\ pc = "idle" \/ entries = <<>>
    /\ ticks' = ticks + 1
    /\ \E d \in TickSteps : clock' = clock + d
    /\ UNCHANGED <<file, pc, now, seen, last, urlIdx, entries, new_events, worst_score>>
    /\ UNCHANGED <<runs, sends, rollups, cur, prev, everFresh>>
    /\ UNCHANGED pureVars

DamageStateFile ==
    /\ pc = "idle"
    /\ file.kind # "bad"
    /\ file' = [kind |-> "bad"]
    /\ UNCHANGED <<clock, pc, now, seen, last, urlIdx, entries, new_events, worst_score>>
    /\ UNCHANGED histVars
    /\ UNCHANGED pureVars

Next ==
    \/ RunStart
    \/ FetchFeed
    \/ \E sendOk \in BOOLEAN : ProcessEntry(sendOk)
    \/ \E sendOk \in BOOLEAN : FinishRun(sendOk)
    \/ Tick
    \/ DamageStateFile

Spec == Init /\ [][Next]_vars

(***************************************************************************)
(* The text functions on a corpus of inputs: titles put together from      *)
(* fragments that each carry one signal, the scenario titles of the        *)
(* specification, three summaries and the five source labels.              *)
(***************************************************************************)

Fragments ==
    << <<78,82,67,32,111,112,101,110,115,32,76,105,99,101,110,115,105,110,103,32,70,114,97,109,101,119,111,114,107>>,  \* "NRC opens Licensing Framework"
       <<69,118,97,99,117,97,116,105,111,110,32,111,114,100,101,114,101,100>>,  \* "Evacuation ordered"
       <<84,114,105,116,105,117,109,32,100,101,116,101,99,116,101,100>>,  \* "Tritium detected"
       <<69,120,112,108,111,115,105,111,110>>,  \* "Explosion"
       <<108,101,97,107,32,117,110,100,101,114,32,105,110,118,101,115,116,105,103,97,116,105,111,110>>,  \* "leak under investigation"
       <<110,101,97,114,32,74,111,114,100,97,110>>  \* "near Jordan"
    >>

\* " ".join of the fragments at the positions in keep, from position i on.
RECURSIVE JoinFrom(_, _)
JoinFrom(i, keep) ==
    IF i > Len(Fragments) THEN <<>>
    ELSE LET rest == JoinFrom(i + 1, keep)
         IN  IF i \notin keep THEN rest
             ELSE IF rest = <<>> THEN Fragments[i]
             ELSE Fragments[i] \o <<32>> \o rest

ScenarioTitles ==
    { <<73,65,69,65,32,100,101,99,108,97,114,101,115,32,115,116,97,116,101,32,111,102,32,101,109,101,114,103,101,110,99,121,32,97,102,116,101,114,32,114,101,97,99,116,111,114,32,99,111,110,116,97,105,110,109,101,110,116,32,98,114,101,97,99,104,32,110,101,97,114,32,74,111,114,100,97,110,32,98,111,114,100,101,114>>,  \* "IAEA declares state of emergency after reactor containment breach near Jordan border"
      <<78,82,67,32,111,112,101,110,115,32,112,117,98,108,105,99,32,99,111,109,109,101,110,116,32,112,101,114,105,111,100,32,111,110,32,110,101,119,32,108,105,99,101,110,115,105,110,103,32,102,114,97,109,101,119,111,114,107>>,  \* "NRC opens public comment period on new licensing framework"
      <<80,114,111,116,101,115,116,101,114,115,32,101,118,97,99,117,97,116,101,32,99,97,112,105,116,97,108,32,97,109,105,100,32,117,110,114,101,115,116>>,  \* "Protesters evacuate capital amid unrest"
      <<77,105,110,111,114,32,116,114,105,116,105,117,109,32,108,101,97,107,32,114,101,112,111,114,116,101,100,32,97,116,32,99,111,97,115,116,97,108,32,112,108,97,110,116,44,32,105,110,118,101,115,116,105,103,97,116,105,111,110,32,117,110,100,101,114,119,97,121>>,  \* "Minor tritium leak reported at coastal plant, investigation underway"
      <<114,101,97,99,116,111,114,32,105,110,99,105,100,101,110,116,32,83,65,85,68,304>>,  \* "reactor incident SAUD" and U+0130 (capital I with dot above)
      <<119,111,114,8490,115,104,111,112,32,111,110,32,115,97,102,101,116,121>>,  \* "wor", U+212A (Kelvin sign), "shop on safety"
      <<108,101,97,8490,32,97,116,32,112,108,97,110,116>>,  \* "lea", U+212A (Kelvin sign), " at plant"
      <<110,117,99,108,101,97,114,32,115,116,111,99,8490>>  \* "nuclear stoc" and U+212A (Kelvin sign)
    }

CorpusTitles == {JoinFrom(1, keep) : keep \in SUBSET (1..Len(Fragments))} \cup ScenarioTitles

CorpusSummaries ==
    { <<>>,
      <<68,111,115,101,32,82,97,116,101,32,114,105,115,105,110,103>>,  \* "Dose Rate rising"
      <<115,116,111,99,107,32,109,97,114,107,101,116>>  \* "stock market"
    }

Labels == {L_IAEA, L_NRC_EVENT, L_NRC_NEWS, L_GOOGLE, L_RSS}

PureInit ==
    /\ ProgInit
    /\ pin \in [title : CorpusTitles, summary : CorpusSummaries, source : Labels]
    /\ pout = NoResults

ApplyRelevant ==
    /\ pout.relevant = {}
    /\ pout' = [pout EXCEPT !.relevant = {is_relevant(pin.title, pin.summary)}]
    /\ UNCHANGED <<pin, progVars, histVars>>

ApplyClassify ==
    /\ pout.kind = {}
    /\ pout' = [pout EXCEPT !.kind = {classify_event(pin.title, pin.summary, pin.source)}]
    /\ UNCHANGED <<pin, progVars, histVars>>

ApplyAssess ==
    /\ pout.assess = {}
    /\ pout' = [pout EXCEPT !.assess = {smart_assess(pin.title, pin.summary, pin.source)}]
    /\ UNCHANGED <<pin, progVars, histVars>>

PureNext == ApplyRelevant \/ ApplyClassify \/ ApplyAssess

SpecPure == PureInit /\ [][PureNext]_vars

\* The signals of the input, as the classifier and the scorer derive them.
SigRegulatory == is_regulatory(pin.title, pin.summary)
SigEvidence == has_radiation_evidence(pin.title, pin.summary)
SigEvacuation == ContainsAny(Blob(pin.title, pin.summary), EVAC_WORDS)
SigSevere == ContainsAny(Blob(pin.title, pin.summary), SEVERITY_HIGH)
SigModerate == ContainsAny(Blob(pin.title, pin.summary), SEVERITY_MED)
SigNear == ContainsAnyLower(Blob(pin.title, pin.summary), NEAR_KSA_HINTS)
SigOfficial == pin.source \in {L_IAEA, L_NRC_EVENT, L_NRC_NEWS}

(***************************************************************************)
(* Properties of the classifier and the scorer (checked under SpecPure).   *)
(***************************************************************************)

\* The decision order of the classifier, first match wins.
KindByOrder(regulatory, evacuation, evidence, official, severe, moderate) ==
    IF regulatory /\ ~evidence THEN "regulatory-notice"
    ELSE IF evacuation /\ ~evidence THEN "security-noise"
    ELSE IF evidence /\ official /\ severe THEN "confirmed-incident"
    ELSE IF evidence /\ (official \/ moderate) THEN "probable-incident"
    ELSE IF evidence THEN "weak-signal"
    ELSE "unclassified"

\* C8: for every input of the corpus, which realises every combination of
\* the six signals, classify_event returns the first matching kind in the
\* order regulatory-notice, security-noise, confirmed-incident,
\* probable-incident, weak-signal, unclassified.
C8_ClassifierDecisionOrder ==
    \A k \in pout.kind :
        k = KindByOrder(SigRegulatory, SigEvacuation, SigEvidence,
                        SigOfficial, SigSevere, SigModerate)

\* C8 witness: an input with regulatory and evacuation wording, no radiation
\* evidence, classified as a regulatory notice (rule 1 before rule 2).
C8_Witness ==
    /\ SigRegulatory /\ SigEvacuation /\ ~SigEvidence
    /\ pout.kind = {"regulatory-notice"}

\* The severity the scorer is to use: 2 if severe, else 1 if moderate, else
\* 0; raised to at least 1 only by evacuation together with evidence.
SevByRule(evidence, evacuation, severe, moderate) ==
    LET base == IF severe THEN 2 ELSE IF moderate THEN 1 ELSE 0
    IN  IF evacuation /\ evidence /\ base < 1 THEN 1 ELSE base

\* The six cells of the score table.
ScoreCell(sev, near) ==
    IF sev = 0 THEN (IF near THEN <<30, "medium">> ELSE <<15, "low">>)
    ELSE IF sev = 1 THEN (IF near THEN <<60, "high">> ELSE <<40, "medium">>)
    ELSE (IF near THEN <<80, "high">> ELSE <<65, "high">>)

\* The score and the tier as the specification states them.
ScoreByRule(source, regulatory, evidence, evacuation, severe, moderate, near) ==
    IF regulatory /\ ~evidence THEN <<10, "low">>
    ELSE IF source = L_GOOGLE /\ ~evidence THEN <<15, "low">>
    ELSE ScoreCell(SevByRule(evidence, evacuation, severe, moderate), near)

\* C9: smart_assess returns score 10 (low) for a regulatory text without
\* evidence, else score 15 (low) for a Google News text without evidence,
\* else the cell of the table for (sev, near).
C9_ScorerResult ==
    \A a \in pout.assess :
        <<a.score, a.level>> =
            ScoreByRule(pin.source, SigRegulatory, SigEvidence, SigEvacuation,
                        SigSevere, SigModerate, SigNear)

(***************************************************************************)
(* Properties of the runs (checked under Spec).                            *)
(***************************************************************************)

\* The fingerprints in the state file.
FileSeen == IF file.kind = "ok" THEN DOMAIN file.seen ELSE {}

\* The largest element of a non-empty set of numbers.
Largest(S) == CHOOSE m \in S : \A x \in S : x <= m

\* The run before the current one saved its state and the current run
\* loaded that state.
TwoRunsShareLedger ==
    /\ prev.outcome = "saved"
    /\ cur.outcome \in {"running", "saved", "send-failed", "encode-failed"}

\* C1 as stated: an item that passes the relevance filter and is not a
\* suppressed Google News item, new to the ledger at the first of two runs
\* that share the ledger and fetched in both, is notified exactly once: in
\* the first run, not in the second.
C1_DedupAcrossRuns ==
    TwoRunsShareLedger =>
        \A g \in (prev.qualified \cap cur.qualified) \ prev.seenAtStart :
            SentIn(prev, g) = 1 /\ SentIn(cur, g) = 0

\* C1 amended: the same for an item that the first run does not skip by
\* age (no timestamp, or one not more than 72 hours before that run).
C1_DedupAcrossRunsOfFreshItems ==
    TwoRunsShareLedger =>
        \A g \in (prev.assessed \cap cur.qualified) \ prev.seenAtStart :
            SentIn(prev, g) = 1 /\ SentIn(cur, g) = 0

\* C1 witness: both runs are over, an item new at the first run was
\* assessed in both and notified in the first only, while an item that was
\* in the ledger the first run loaded was assessed in both and notified in
\* neither.
C1_Witness ==
    /\ prev.outcome = "saved" /\ cur.outcome = "saved"
    /\ \E g \in (prev.assessed \cap cur.assessed) \ prev.seenAtStart :
           SentIn(prev, g) = 1 /\ SentIn(cur, g) = 0
    /\ \E g \in prev.assessed \cap cur.assessed \cap prev.seenAtStart :
           SentIn(prev, g) = 0 /\ SentIn(cur, g) = 0

\* C2: no fingerprint is ever notified more than once, over all runs.
C2_AtMostOnce == \A g \in DOMAIN sends : sends[g] <= 1

\* C3: a run in which a delivery failed still goes on to its end and saves
\* the ledger.
C3_DeliveryFailureNotFatal ==
    (cur.failed /\ pc = "idle") => cur.outcome = "saved"

\* C4: summaries are sent in trigger hours only, at most one per hour
\* window, and once a run that started in a trigger hour has ended within
\* that hour exactly one summary of that window has been sent.
C4_RollupOncePerWindow ==
    /\ \A k \in DOMAIN rollups :
           HourOfDay(k) \in SUMMARY_HOURS /\ rollups[k] = 1
    /\ (/\ pc = "idle"
        /\ cur.outcome # "none"
        /\ clock = cur.start
        /\ HourOfDay(cur.start) \in SUMMARY_HOURS)
       => Count(rollups, WindowKey(cur.start)) = 1

\* The fingerprints of the Google News entries without radiation evidence.
SuppressedGids ==
    {EntryFacts[p].gid : p \in {q \in SourcedEntries :
                                  q[1] = L_GOOGLE /\ ~EntryFacts[q].evidence}}

\* C5: once a run is over, every Google News item without evidence that it
\* processed is in the state file, and no such item is ever notified.
C5_SuppressedButRecorded ==
    /\ (pc = "idle" /\ cur.outcome # "none" /\ file.kind # "bad")
       => cur.suppressed \subseteq FileSeen
    /\ \A g \in SuppressedGids : Count(sends, g) = 0

\* C6 as stated: the score of a summary is the largest score assessed in
\* the run.
C6_RollupScoreIsMaxOfEntries ==
    \A r \in cur.rollup :
        cur.scores # {} => r.score = Largest(cur.scores)

\* C6 amended: the score of a summary is the larger of 15 and the largest
\* score assessed in the run, entries already in the ledger included.
C6_RollupScoreIsMaxWithFloor ==
    \A r \in cur.rollup : r.score = Largest(cur.scores \cup {15})

\* C6 witness: a summary whose score above 15 comes from an entry that was
\* already in the ledger: the run notified nothing.
C6_Witness ==
    \E r \in cur.rollup :
        /\ r.score > 15
        /\ cur.sent = <<>>
        /\ cur.assessed # {} /\ cur.assessed \subseteq cur.seenAtStart

\* C7: no run ends in load_state; a state file that cannot be parsed is
\* read as an empty ledger.
C7_FailSafeLedgerRead == cur.outcome # "load-failed"

\* C10: an entry is skipped by age exactly when it has a timestamp more
\* than 72 hours before the start of the run; it is skipped before its
\* fingerprint is computed, so a run ends in sha1 only on an entry that is
\* not skipped; a skipped entry is neither assessed, nor recorded, nor
\* notified in that run; and a fingerprint that was never fetched while
\* young enough (nor was in the state file before the first run) is in no
\* ledger and never notified.
C10_AgeCutoff ==
    /\ \A r \in cur.ageSkipped :
           r.t # {} /\ \A x \in r.t : cur.start - x > MAX_AGE_HOURS
    /\ {r.id : r \in cur.ageSkipped} = cur.stale
    /\ \A r \in cur.unencodable :
           /\ \A x \in r.t : cur.start - x <= MAX_AGE_HOURS
           /\ cur.outcome = "encode-failed"
    /\ \A g \in cur.stale :
           /\ g \notin cur.assessed \cup cur.suppressed
           /\ SentIn(cur, g) = 0
    /\ pc = "loop" => worst_score = Largest(cur.scores \cup {15})
    /\ \A g \in DOMAIN seen \cup FileSeen \cup DOMAIN sends : g \in everFresh

\* C10 witness: a finished run skipped an entry by age that an earlier run
\* had processed at the age of exactly 72 hours, skipped another that is in
\* no ledger and never was notified, and skipped a third on which sha1
\* raises, without computing its fingerprint.
C10_Witness ==
    /\ cur.outcome = "saved"
    /\ \E r \in cur.ageSkipped : r.id \in FileSeen /\ Count(sends, r.id) = 1
    /\ \E r \in cur.ageSkipped : r.id \notin FileSeen /\ Count(sends, r.id) = 0
    /\ \E r \in cur.ageSkipped : r.id = Ident(E7, L_NRC_EVENT)

====
